---- MODULE Spec2Model ----
(***************************************************************************)
(* A model of app.py, the Streamlit quiz application: the free-text quiz   *)
(* parser (parse_quiz), the scoring loop of the "Submit Answers" button,   *)
(* the percentage / pass-fail computation, the results.csv helpers         *)
(* (save_result_row, load_results, the dashboard's clear button) and the   *)
(* two pages of the script.                                                *)
(*                                                                         *)
(* Text is modelled at the character level: a Python str is a sequence of  *)
(* one-character strings, so that the regular expressions, strip(),        *)
(* splitlines() and upper() of the source are computed, not assumed.       *)
(***************************************************************************)
EXTENDS Integers, Sequences, FiniteSets, TLC

VARIABLES
    ADMIN_PASS,     \* app.py:15  the configured admin password
    client,         \* app.py:19  TRUE iff an OpenAI client was built (API key set)
    quiz_text,      \* st.session_state["quiz_text"]
    results_csv,    \* the file results.csv: [exists, ino, lines]
    parsed,         \* the last run's parse_quiz(quiz_raw)
    quiz_raw,       \* the text the last run handed to parse_quiz
    user_answers,   \* the answers of the last submit, one per parsed record
    score,          \* the last submit's score
    total,          \* the last submit's total
    percentage,     \* the last submit's percentage, an exact fraction <<num, den>>
    pass_fail,      \* the last submit's verdict
    messages,       \* what the last run displayed (st.error / warning / info / success)
    raised,         \* the exception that ended the last run, or "none"
    event,          \* the operation the last step performed
    password,       \* the password the last dashboard run was given
    df,             \* the last dashboard run's load_results(): [loaded, rows]
    source_blocks,  \* history: the blocks of lines quiz_raw was composed of
    pc,             \* per session: its position inside save_result_row
    local           \* per session: save_result_row's locals (row, exists, handle)

vars == <<ADMIN_PASS, client, quiz_text, results_csv, parsed, quiz_raw,
          user_answers, score, total, percentage, pass_fail, messages,
          raised, event, password, df, source_blocks, pc, local>>

----------------------------------------------------------------------------
(* Characters and the str methods the source uses.                         *)

LowerLetters == <<"a","b","c","d","e","f","g","h","i","j","k","l","m",
                  "n","o","p","q","r","s","t","u","v","w","x","y","z">>
UpperLetters == <<"A","B","C","D","E","F","G","H","I","J","K","L","M",
                  "N","O","P","Q","R","S","T","U","V","W","X","Y","Z">>

\* str.upper() on one character
UpperChar ==
    [c \in {LowerLetters[i] : i \in 1..26} |->
        UpperLetters[CHOOSE i \in 1..26 : LowerLetters[i] = c]]
\* re.IGNORECASE folds both sides to one case
LowerChar ==
    [c \in {UpperLetters[i] : i \in 1..26} |->
        LowerLetters[CHOOSE i \in 1..26 : UpperLetters[i] = c]]

Upper(c) == IF c \in DOMAIN UpperChar THEN UpperChar[c] ELSE c
Lower(c) == IF c \in DOMAIN LowerChar THEN LowerChar[c] ELSE c

\* \s of the re module and the whitespace of str.strip(), over the model's alphabet
IsSpace(c) == c \in {" ", "\n", "\t"}

\* the first index >= i of s that holds no whitespace (Len(s)+1 if there is none)
RECURSIVE SkipSpace(_, _)
SkipSpace(s, i) ==
    IF i > Len(s) \/ ~IsSpace(s[i]) THEN i ELSE SkipSpace(s, i + 1)

\* the last index <= i of s that holds no whitespace (0 if there is none)
RECURSIVE SkipSpaceBack(_, _)
SkipSpaceBack(s, i) ==
    IF i < 1 \/ ~IsSpace(s[i]) THEN i ELSE SkipSpaceBack(s, i - 1)

\* str.strip()
strip(s) == SubSeq(s, SkipSpace(s, 1), SkipSpaceBack(s, Len(s)))

\* the first index >= i of s that holds a line break (Len(s)+1 if there is none)
RECURSIVE LineEnd(_, _)
LineEnd(s, i) ==
    IF i > Len(s) \/ s[i] = "\n" THEN i ELSE LineEnd(s, i + 1)

\* str.splitlines()
RECURSIVE splitlines(_)
splitlines(s) ==
    IF s = <<>> THEN <<>>
    ELSE LET e == LineEnd(s, 1)
         IN  <<SubSeq(s, 1, e - 1)>> \o splitlines(SubSeq(s, e + 1, Len(s)))

----------------------------------------------------------------------------
(* The regular expressions of parse_quiz and of the scoring loop.          *)

\* the last index in lo..hi of s that holds a line break (0 if there is none)
RECURSIVE LastBreak(_, _, _)
LastBreak(s, lo, hi) ==
    IF hi < lo THEN 0
    ELSE IF s[hi] = "\n" THEN hi ELSE LastBreak(s, lo, hi - 1)

\* re.split(r"\n\s*\n", s): the leftmost line break that a run of whitespace
\* holding another line break follows starts a separator; \s* is greedy, so
\* the separator ends at the last line break of that run.
RECURSIVE SplitFrom(_, _, _)
SplitFrom(s, start, from) ==
    LET i == LineEnd(s, from)
    IN  IF i > Len(s) THEN <<SubSeq(s, start, Len(s))>>
        ELSE LET e == SkipSpace(s, i + 1)
                 j == LastBreak(s, i + 1, e - 1)
             IN  IF j = 0 THEN SplitFrom(s, start, e)
                 ELSE <<SubSeq(s, start, i - 1)>> \o SplitFrom(s, j + 1, j + 1)

re_split(s) == SplitFrom(s, 1, 1)

\* whether keyword kw (given in lower case) matches s at index i, ignoring case
MatchAt(s, i, kw) ==
    /\ i + Len(kw) - 1 <= Len(s)
    /\ \A k \in 1..Len(kw) : Lower(s[i + k - 1]) = kw[k]

KwCorrectAnswer == <<"c","o","r","r","e","c","t"," ","a","n","s","w","e","r">>
KwAnswer        == <<"a","n","s","w","e","r">>
KwContext       == <<"c","o","n","t","e","x","t">>
KwExplanation   == <<"e","x","p","l","a","n","a","t","i","o","n">>

\* re.search(r"(K1|K2)\s*[:\-]?\s*(.*)", s, re.IGNORECASE): the leftmost index
\* where K1 or (failing that) K2 matches; then whitespace (line breaks
\* included), at most one ':' or '-', whitespace again, and group 2 is the rest
\* of that line.  The result is <<found, group 2>>.
SearchLabelled(s, k1, k2) ==
    LET hits == {i \in 1..Len(s) : MatchAt(s, i, k1) \/ MatchAt(s, i, k2)}
    IN  IF hits = {} THEN <<FALSE, <<>>>>
        ELSE LET i  == CHOOSE h \in hits : \A g \in hits : h <= g
                 p  == IF MatchAt(s, i, k1) THEN i + Len(k1) ELSE i + Len(k2)
                 p1 == SkipSpace(s, p)
                 p2 == IF p1 <= Len(s) /\ s[p1] \in {":", "-"} THEN p1 + 1 ELSE p1
                 p3 == SkipSpace(s, p2)
             IN  <<TRUE, SubSeq(s, p3, LineEnd(s, p3) - 1)>>

\* re.match(r"^[A-D1-4][\.\)]\s+", ln, re.IGNORECASE)
LabelChars == {"A", "B", "C", "D", "1", "2", "3", "4"}
IsOptionLine(ln) ==
    /\ Len(ln) >= 3
    /\ Upper(ln[1]) \in LabelChars
    /\ ln[2] \in {".", ")"}
    /\ IsSpace(ln[3])

\* re.match(r"^([A-D1-4])", s, re.IGNORECASE), then group(1).upper(); <<>> for
\* no match (the source's "")
LeadingLetter(s) ==
    IF Len(s) >= 1 /\ Upper(s[1]) \in LabelChars THEN <<Upper(s[1])>> ELSE <<>>

----------------------------------------------------------------------------
(* parse_quiz (app.py:56-89).                                              *)

\* [ln.strip() for ln in block.splitlines() if ln.strip()]
RECURSIVE StrippedLines(_)
StrippedLines(raw) ==
    IF raw = <<>> THEN <<>>
    ELSE (IF strip(Head(raw)) # <<>> THEN <<strip(Head(raw))>> ELSE <<>>)
         \o StrippedLines(Tail(raw))

\* [ln for ln in lines if re.match(r"^[A-D1-4][\.\)]\s+", ln, re.IGNORECASE)]
RECURSIVE LabelledLines(_)
LabelledLines(lines) ==
    IF lines = <<>> THEN <<>>
    ELSE (IF IsOptionLine(Head(lines)) THEN <<Head(lines)>> ELSE <<>>)
         \o LabelledLines(Tail(lines))

\* the options of a block: the labelled lines after the first, or, when there
\* are none and the block has at least 5 lines, lines[1:5]
BlockOptions(lines) ==
    LET labelled == LabelledLines(Tail(lines))
    IN  IF labelled = <<>> /\ Len(lines) >= 5 THEN SubSeq(lines, 2, 5)
        ELSE labelled

\* group(2).strip() of the "Correct Answer" search, "" when nothing matches
BlockCorrect(block) ==
    LET m == SearchLabelled(block, KwCorrectAnswer, KwAnswer)
    IN  IF m[1] THEN strip(m[2]) ELSE <<>>

\* group(2).strip() of the "Context" search, "" when nothing matches
BlockContext(block) ==
    LET m == SearchLabelled(block, KwContext, KwExplanation)
    IN  IF m[1] THEN strip(m[2]) ELSE <<>>

\* the body of the loop over blocks: the records one block contributes
ParseBlock(block) ==
    LET lines == StrippedLines(splitlines(block))
    IN  IF lines = <<>> THEN <<>>
        ELSE LET question == lines[1]
                 options  == BlockOptions(lines)
                 correct  == BlockCorrect(block)
                 context  == BlockContext(block)
             IN  IF question # <<>> /\ options # <<>> /\ correct # <<>>
                 THEN <<[question |-> question, options |-> options,
                         correct |-> correct, context |-> context]>>
                 ELSE <<>>

RECURSIVE ParseBlocks(_)
ParseBlocks(blocks) ==
    IF blocks = <<>> THEN <<>>
    ELSE ParseBlock(Head(blocks)) \o ParseBlocks(Tail(blocks))

parse_quiz(raw) ==
    IF raw = <<>> THEN <<>> ELSE ParseBlocks(re_split(strip(raw)))

----------------------------------------------------------------------------
(* The scoring loop of "Submit Answers" (app.py:176-205).                  *)

\* the answer of a question the student left unanswered (Python's None)
NoAnswer == <<"None">>

\* the first option whose stripped, upper-cased text starts with the letter;
\* <<>> (the source's None) when there is none or the letter is ""
RECURSIVE FirstOptionWith(_, _)
FirstOptionWith(options, letter) ==
    IF options = <<>> \/ letter = <<>> THEN <<>>
    ELSE LET opt == strip(Head(options))
         IN  IF opt # <<>> /\ <<Upper(opt[1])>> = letter THEN opt
             ELSE FirstOptionWith(Tail(options), letter)

\* correct_option_text of one record (app.py:182-192)
CorrectOptionText(q) ==
    LET correct_letter == LeadingLetter(strip(q.correct))
        byLetter == FirstOptionWith(q.options, correct_letter)
    IN  IF byLetter = <<>> /\ strip(q.correct) # <<>> THEN strip(q.correct)
        ELSE byLetter

\* IsCorrect with the answer compared to the record's raw "correct" field, the
\* label never mapped to its option
IsCorrect_RawCompare(q, answer) ==
    LET user_ans == IF answer = NoAnswer THEN <<>> ELSE answer
    IN  strip(q.correct) # <<>> /\ strip(user_ans) = strip(q.correct)

\* is_correct of one record and one submitted answer (app.py:180, 193)
IsCorrect(q, answer) ==
    LET user_ans == IF answer = NoAnswer THEN <<>> ELSE answer
        correct_option_text == CorrectOptionText(q)
    IN  IF correct_option_text # <<>> THEN strip(user_ans) = correct_option_text
        ELSE FALSE

\* the loop: score after the first n records
RECURSIVE ScoreUpTo(_, _, _)
ScoreUpTo(records, answers, n) ==
    IF n = 0 THEN 0
    ELSE ScoreUpTo(records, answers, n - 1)
         + (IF IsCorrect(records[n], answers[n]) THEN 1 ELSE 0)

Score(records, answers) == ScoreUpTo(records, answers, Len(records))

\* percentage = (score/total)*100 if total else 0, as the exact fraction
\* <<numerator, denominator>>.  The float the source computes compares with 50
\* as the fraction does: score/total is exactly 0.5 when 2*score = total, and is
\* otherwise at least 1/(2*total) away from it.
Percentage(s, t) == IF t # 0 THEN <<100 * s, t>> ELSE <<0, 1>>

\* PassFail with the boundary excluded
PassFail_Strict(pct) == IF pct[1] > 50 * pct[2] THEN "Pass" ELSE "Fail"

\* "Pass" if percentage >= 50 else "Fail" (app.py:220)
PassFail(pct) == IF pct[1] >= 50 * pct[2] THEN "Pass" ELSE "Fail"

----------------------------------------------------------------------------
(* The lines the generator's output is composed of in this model, each    *)
(* written out as its characters.                                          *)

\* "Q?"
PromptPlain ==
    <<"Q","?">>
\* "Best answer?"
PromptWithAnswer ==
    <<"B","e","s","t"," ","a","n","s","w","e","r","?">>
\* "A. Cat"
OptA ==
    <<"A","."," ","C","a","t">>
\* "B. Dog"
OptB ==
    <<"B","."," ","D","o","g">>
\* "C. Ant"
OptC ==
    <<"C","."," ","A","n","t">>
\* "D. Bee"
OptD ==
    <<"D","."," ","B","e","e">>
\* "Cat"
PlainCat ==
    <<"C","a","t">>
\* "Dog"
PlainDog ==
    <<"D","o","g">>
\* "Ant"
PlainAnt ==
    <<"A","n","t">>
\* "Bee"
PlainBee ==
    <<"B","e","e">>
\* "Correct Answer: A"
AnsLabelA ==
    <<"C","o","r","r","e","c","t"," ","A","n","s","w","e","r",":"," ","A">>
\* "Answer: Dog"
AnsFullText ==
    <<"A","n","s","w","e","r",":"," ","D","o","g">>
\* "Answer: Eel"
AnsUnknown ==
    <<"A","n","s","w","e","r",":"," ","E","e","l">>
\* "Context: c"
CtxLine ==
    <<"C","o","n","t","e","x","t",":"," ","c">>
\* "What is phishing?"
PhishPrompt ==
    <<"W","h","a","t"," ","i","s"," ","p","h","i","s","h","i","n","g","?">>
\* "A. A fish"
PhishA ==
    <<"A","."," ","A"," ","f","i","s","h">>
\* "B. A fraudulent attempt to obtain sensitive data"
PhishB ==
    <<"B","."," ","A"," ","f","r","a","u","d","u","l","e","n","t"," ","a",
      "t","t","e","m","p","t"," ","t","o"," ","o","b","t","a","i","n"," ",
      "s","e","n","s","i","t","i","v","e"," ","d","a","t","a">>
\* "C. A virus"
PhishC ==
    <<"C","."," ","A"," ","v","i","r","u","s">>
\* "D. A firewall"
PhishD ==
    <<"D","."," ","A"," ","f","i","r","e","w","a","l","l">>
\* "Correct Answer: B"
PhishCorrect ==
    <<"C","o","r","r","e","c","t"," ","A","n","s","w","e","r",":"," ","B">>
\* "Context: Phishing uses deceptive messages."
PhishContext ==
    <<"C","o","n","t","e","x","t",":"," ","P","h","i","s","h","i","n","g",
      " ","u","s","e","s"," ","d","e","c","e","p","t","i","v","e"," ","m",
      "e","s","s","a","g","e","s",".">>
\* "Sorry, I cannot help."
Chatter ==
    <<"S","o","r","r","y",","," ","I"," ","c","a","n","n","o","t"," ","h",
      "e","l","p",".">>

----------------------------------------------------------------------------
(* Composition of the generator's output from lines.                       *)

\* sep.join(parts)
RECURSIVE Join(_, _)
Join(parts, sep) ==
    IF parts = <<>> THEN <<>>
    ELSE IF Len(parts) = 1 THEN parts[1]
    ELSE parts[1] \o sep \o Join(Tail(parts), sep)

\* a block: its lines, one per line
BlockText(lines) == Join(lines, <<"\n">>)

\* a text: its blocks, sep (a blank line) between them
ComposeText(blocks, sep) ==
    Join([i \in 1..Len(blocks) |-> BlockText(blocks[i])], sep)

\* the blank lines that separate blocks: empty, or holding a space
Separators == {<<"\n", "\n">>, <<"\n", " ", "\n">>}

\* the most blocks a generated text holds
MaxBlocks == 2

PromptLines  == {PromptPlain, PromptWithAnswer}
OptionLists  == {<<>>, <<OptA>>, <<OptA, OptB, OptC>>, <<OptA, OptB, OptC, OptD>>,
                 <<PlainCat, PlainDog, PlainAnt, PlainBee>>}
AnswerLines  == {<<>>, <<AnsLabelA>>, <<AnsFullText>>, <<AnsUnknown>>}
ContextLines == {<<>>, <<CtxLine>>}

\* the blocks parse_quiz is run on: a prompt, then options, then an answer
\* line and a context line, each of the last three possibly missing
Blocks ==
    {<<p>> \o o \o a \o c :
        p \in PromptLines, o \in OptionLists, a \in AnswerLines, c \in ContextLines}

BlockSeqs == UNION {[1..n -> Blocks] : n \in 0..MaxBlocks}

PhishingBlock ==
    <<PhishPrompt, PhishA, PhishB, PhishC, PhishD, PhishCorrect, PhishContext>>
WellFormedBlock == <<PromptPlain, OptA, OptB, OptC, OptD, AnsLabelA, CtxLine>>
FullTextBlock   == <<PromptPlain, OptA, OptB, AnsFullText>>

\* what the chat completion returns in the page model, before .strip() (app.py:51)
GeneratorOutputs ==
    { BlockText(PhishingBlock),
      <<" ", "\n">> \o BlockText(WellFormedBlock) \o <<"\n">>,
      ComposeText(<<WellFormedBlock, FullTextBlock>>, <<"\n", "\n">>),
      Chatter,
      <<" ">> }

----------------------------------------------------------------------------
(* results.csv and the storage helpers (app.py:94-106, 287-288).           *)
(* The file is [exists, ino, lines]: ino counts the removals, so that a    *)
(* handle opened before an os.remove no longer writes to the path; lines   *)
(* are whole CSV records (the header or one row).  A row is identified by  *)
(* student_name, score and total: its percentage and details are computed  *)
(* from them and the answers, its timestamp from the clock.                *)

NoFile == [exists |-> FALSE, ino |-> 0, lines |-> <<>>]
Header == [kind |-> "header"]
Row(name, s, t) == [kind |-> "row", student_name |-> name, score |-> s, total |-> t]

\* open(RESULTS_CSV, mode) as DataFrame.to_csv does: "w" creates or truncates,
\* "a" creates the file when it is absent
OpenFile(file, mode) ==
    IF mode = "w" THEN [file EXCEPT !.exists = TRUE, !.lines = <<>>]
    ELSE [file EXCEPT !.exists = TRUE]

\* the records a write at record offset pos leaves in the file
WriteAt(lines, pos, content) ==
    LET n == IF Len(lines) > pos + Len(content) THEN Len(lines)
             ELSE pos + Len(content)
    IN  [i \in 1..n |-> IF i > pos /\ i <= pos + Len(content)
                        THEN content[i - pos] ELSE lines[i]]

\* the write and close of to_csv through handle h = [mode, ino]: an "a" handle
\* appends, a "w" handle writes from the start (over what another handle wrote
\* there, records taken to be of one length); a handle of a removed file
\* writes nothing to the path
WriteFile(file, h, content) ==
    IF file.ino # h.ino THEN file
    ELSE IF h.mode = "a" THEN [file EXCEPT !.lines = @ \o content]
    ELSE [file EXCEPT !.lines = WriteAt(@, 0, content)]

\* the mode save_result_row picks from os.path.exists (app.py:96-99)
SaveMode(exists) == IF exists THEN "a" ELSE "w"

\* what to_csv writes: header=False in mode "a", the header and the row otherwise
SaveContent(mode, row) == IF mode = "a" THEN <<row>> ELSE <<Header, row>>

\* save_result_row run without interruption
save_result_row(file, row) ==
    LET mode   == SaveMode(file.exists)
        opened == OpenFile(file, mode)
    IN  WriteFile(opened, [mode |-> mode, ino |-> opened.ino],
                  SaveContent(mode, row))

\* load_results: read_csv takes the first record as the header; it raises
\* EmptyDataError on a file that exists and is empty
NotLoaded == [loaded |-> FALSE, rows |-> <<>>]
LoadRaises(file) == file.exists /\ file.lines = <<>>
load_results(file) ==
    [loaded |-> TRUE, rows |-> IF file.exists THEN Tail(file.lines) ELSE <<>>]

\* os.remove(RESULTS_CSV) on a file that exists
RemoveFile(file) == [exists |-> FALSE, ino |-> file.ino + 1, lines |-> <<>>]

----------------------------------------------------------------------------
(* Bounds and inputs of the page model.                                    *)

\* the sessions that submit concurrently
NumSessions == 2
Sessions == 1..NumSessions

\* the most rows the student page model lets results.csv hold
MaxRows == 1

\* the most times the dashboard model removes results.csv
MaxClears == 1

\* the largest total the verdict is computed for
MaxTotal == 10

\* the name session s types: "a", "aa", ...
NameOf(s) == [i \in 1..s |-> "a"]

StudentNames     == {<<>>, NameOf(1)}
CategoriesInputs == {<<>>, <<"p", "w">>}

\* os.getenv("ADMIN_PASS", "admin123"): unset, set to the empty string, set
AdminPassSettings == {"admin123", "", "s3cret"}
Passwords == {"", "admin123", "s3cret", "letmein"}

MsgNameMissing == "Please enter your name before generating the quiz."
MsgCatsMissing == "Please enter categories/topics."
MsgGenerated   == "Quiz generated"
MsgGenFailed   == "Failed to generate quiz. Check OpenAI key or try again."
MsgCleared     == "Cleared."
MsgLoaded      == "Quiz loaded"
MsgScored      == "you scored"
MsgNoParse     == "Could not parse questions from generated text."
MsgNoQuiz      == "No quiz generated yet."
MsgBadPass     == "Incorrect admin password."
MsgAuth        == "Authenticated"
MsgNoResults   == "No results yet."
MsgResultsGone == "Results cleared. Refresh the page."

IdleLocal == [row |-> Header, exists |-> FALSE, mode |-> "-", ino |-> 0]

\* the values of the variables a specification does not set otherwise
ConfigDefault == ADMIN_PASS = "admin123" /\ client = TRUE
SessionBlank  == quiz_text = <<>> /\ quiz_raw = <<>> /\ parsed = <<>>
                 /\ source_blocks = <<>>
SubmitBlank   == user_answers = <<>> /\ score = 0 /\ total = 0
                 /\ percentage = <<0, 1>> /\ pass_fail = "-"
RunBlank      == messages = {} /\ raised = "none"
DashBlank     == password = "" /\ df = NotLoaded
StoreBlank    == results_csv = NoFile /\ pc = [s \in Sessions |-> "idle"]
                 /\ local = [s \in Sessions |-> IdleLocal]

configVars  == <<ADMIN_PASS, client>>
submitVars  == <<user_answers, score, total, percentage, pass_fail>>
dashVars    == <<password, df>>
saveVars    == <<pc, local>>

----------------------------------------------------------------------------
(* SpecParse: parse_quiz applied to every text of at most MaxBlocks blocks. *)

InitParse ==
    /\ \E bs \in BlockSeqs, sep \in Separators :
          /\ source_blocks = bs
          /\ quiz_raw = ComposeText(bs, sep)
    /\ quiz_text = quiz_raw
    /\ parsed = <<>>
    /\ event = "init"
    /\ ConfigDefault /\ SubmitBlank /\ RunBlank /\ DashBlank /\ StoreBlank

\* parsed = parse_quiz(quiz_raw)  (app.py:150)
ParseStep ==
    /\ event = "init"
    /\ parsed' = parse_quiz(quiz_raw)
    /\ event' = "parse"
    /\ UNCHANGED <<quiz_text, quiz_raw, source_blocks, results_csv, messages,
                   raised, configVars, submitVars, dashVars, saveVars>>

NextParse == ParseStep

SpecParse == InitParse /\ [][NextParse]_vars

----------------------------------------------------------------------------
(* SpecVerdict: the percentage and the verdict of "Submit Answers"         *)
(* (app.py:205, 220) for every 0 <= score <= total <= MaxTotal.            *)

InitVerdict ==
    /\ total \in 0..MaxTotal
    /\ score \in 0..total
    /\ percentage = <<0, 1>> /\ pass_fail = "-" /\ user_answers = <<>>
    /\ event = "init"
    /\ ConfigDefault /\ SessionBlank /\ RunBlank /\ DashBlank /\ StoreBlank

ComputeVerdict ==
    /\ event = "init"
    /\ percentage' = Percentage(score, total)
    /\ pass_fail' = PassFail(percentage')
    /\ event' = "verdict"
    /\ UNCHANGED <<score, total, user_answers, quiz_text, quiz_raw, parsed,
                   source_blocks, results_csv, messages, raised, configVars,
                   dashVars, saveVars>>

NextVerdict == ComputeVerdict

SpecVerdict == InitVerdict /\ [][NextVerdict]_vars

----------------------------------------------------------------------------
(* Spec: the student page (app.py:117-242), one script run per step, in    *)
(* one session; save_result_row runs without interruption.                 *)

\* generate_question (app.py:26-51) given what the chat completion returns
generate_question(output) == IF ~client THEN <<>> ELSE strip(output)

\* PageNotice without the test of quiz_raw
PageNotice_NoDistinction(raw, records) ==
    IF records # <<>> THEN MsgLoaded ELSE MsgNoQuiz

\* the notice below the buttons (app.py:152-153, 238-242)
PageNotice(raw, records) ==
    IF records # <<>> THEN MsgLoaded
    ELSE IF raw # <<>> THEN MsgNoParse ELSE MsgNoQuiz

\* the rest of a run that submits nothing, from quiz_raw = ... on
\* (app.py:149-172, 238-242), with quiz_text as the buttons left it
Render(text, shown) ==
    /\ quiz_text' = text
    /\ quiz_raw' = text
    /\ parsed' = parse_quiz(text)
    /\ messages' = shown \cup {PageNotice(text, parsed')}
    /\ raised' = "none"
    /\ user_answers' = <<>> /\ score' = 0 /\ total' = 0
    /\ percentage' = <<0, 1>> /\ pass_fail' = "-"
    /\ UNCHANGED <<results_csv, source_blocks, configVars, dashVars, saveVars>>

\* a run with "Generate Assessment" clicked (app.py:130-142)
GenerateAssessment(student_name, categories_input, output) ==
    /\ event' = "generate"
    /\ IF strip(student_name) = <<>> THEN Render(quiz_text, {MsgNameMissing})
       ELSE IF strip(categories_input) = <<>>
       THEN Render(quiz_text, {MsgCatsMissing})
       ELSE LET quiz_txt == generate_question(output)
            IN  IF quiz_txt # <<>> THEN Render(quiz_txt, {MsgGenerated})
                ELSE Render(quiz_text, {MsgGenFailed})

\* the same run when the chat completion raises: nothing catches it, the run
\* ends at app.py:45 and parses nothing
GenerateRaises(student_name, categories_input) ==
    /\ client
    /\ strip(student_name) # <<>> /\ strip(categories_input) # <<>>
    /\ event' = "generate"
    /\ raised' = "APIError"
    /\ messages' = {}
    /\ parsed' = <<>> /\ quiz_raw' = <<>>
    /\ user_answers' = <<>> /\ score' = 0 /\ total' = 0
    /\ percentage' = <<0, 1>> /\ pass_fail' = "-"
    /\ UNCHANGED <<quiz_text, results_csv, source_blocks, configVars,
                   dashVars, saveVars>>

\* a run with "Clear Generated Quiz" clicked (app.py:145-147)
ClearGeneratedQuiz ==
    /\ event' = "clear_quiz"
    /\ Render(<<>>, {MsgCleared})

\* a run with no button clicked (a text input or a radio changed)
Rerun ==
    /\ event' = "rerun"
    /\ Render(quiz_text, {})

\* what the radios of the rendered records can hold, one value per record
AnswerVectors(records) ==
    LET Choices(i) == {records[i].options[k] : k \in 1..Len(records[i].options)}
                      \cup {NoAnswer}
        all == UNION {Choices(i) : i \in 1..Len(records)}
    IN  {a \in [1..Len(records) -> all] : \A i \in 1..Len(records) : a[i] \in Choices(i)}

\* the rows results.csv holds
RowCount(file) == IF file.lines = <<>> THEN 0 ELSE Len(file.lines) - 1

\* a run with "Submit Answers" clicked (app.py:149-236); the button exists
\* only below a parsed quiz
SubmitAnswers(student_name) ==
    LET records == parse_quiz(quiz_text)
    IN  /\ records # <<>>
        /\ RowCount(results_csv) < MaxRows
        /\ \E answers \in AnswerVectors(records) :
              /\ user_answers' = answers
              /\ score' = Score(records, answers)
        /\ event' = "submit"
        /\ quiz_raw' = quiz_text
        /\ parsed' = records
        /\ total' = Len(records)
        /\ percentage' = Percentage(score', total')
        /\ pass_fail' = PassFail(percentage')
        /\ results_csv' = save_result_row(results_csv,
                                          Row(student_name, score', total'))
        /\ messages' = {MsgLoaded, MsgScored, pass_fail'}
        /\ raised' = "none"
        /\ quiz_text' = <<>>
        /\ UNCHANGED <<source_blocks, configVars, dashVars, saveVars>>

Init ==
    /\ ADMIN_PASS = "admin123"
    /\ client \in BOOLEAN
    /\ event = "init"
    /\ SessionBlank /\ SubmitBlank /\ RunBlank /\ DashBlank /\ StoreBlank

Next ==
    \/ \E n \in StudentNames, c \in CategoriesInputs, out \in GeneratorOutputs :
          GenerateAssessment(n, c, out)
    \/ \E n \in StudentNames, c \in CategoriesInputs : GenerateRaises(n, c)
    \/ ClearGeneratedQuiz
    \/ Rerun
    \/ \E n \in StudentNames : SubmitAnswers(n)

Spec == Init /\ [][Next]_vars

----------------------------------------------------------------------------
(* SpecStore: results.csv under the submissions of NumSessions sessions,   *)
(* whose script runs Streamlit executes in threads of one process, and the *)
(* dashboard page (app.py:247-289).  A submission is followed from the     *)
(* point where its run calls save_result_row (app.py:216); the call's      *)
(* steps are the os.path.exists test, the open and the write of to_csv.    *)

studentVars == <<quiz_text, quiz_raw, parsed, source_blocks, submitVars>>

\* app.py:96 in session s, whose run scored sc out of 1
SaveExists(s, sc) ==
    /\ pc[s] = "idle"
    /\ local' = [local EXCEPT ![s] =
                    [row |-> Row(NameOf(s), sc, 1), exists |-> results_csv.exists,
                     mode |-> "-", ino |-> 0]]
    /\ pc' = [pc EXCEPT ![s] = "open"]
    /\ event' = "save_exists"
    /\ UNCHANGED <<results_csv, messages, raised, configVars, studentVars, dashVars>>

\* app.py:97 or 99: to_csv opens the file
SaveOpen(s) ==
    /\ pc[s] = "open"
    /\ LET mode == SaveMode(local[s].exists)
       IN  /\ results_csv' = OpenFile(results_csv, mode)
           /\ local' = [local EXCEPT ![s].mode = mode, ![s].ino = results_csv.ino]
    /\ pc' = [pc EXCEPT ![s] = "write"]
    /\ event' = "save_open"
    /\ UNCHANGED <<messages, raised, configVars, studentVars, dashVars>>

\* app.py:97 or 99: to_csv writes and closes
SaveWrite(s) ==
    /\ pc[s] = "write"
    /\ results_csv' = WriteFile(results_csv,
                                [mode |-> local[s].mode, ino |-> local[s].ino],
                                SaveContent(local[s].mode, local[s].row))
    /\ pc' = [pc EXCEPT ![s] = "done"]
    /\ event' = "save_write"
    /\ UNCHANGED <<local, messages, raised, configVars, studentVars, dashVars>>

\* a run of the dashboard page that stops at the password gate (app.py:251-255)
DashboardDenied(pw) ==
    /\ pw # ADMIN_PASS
    /\ event' = "dashboard"
    /\ password' = pw
    /\ messages' = IF pw # "" THEN {MsgBadPass} ELSE {}
    /\ df' = NotLoaded
    /\ raised' = "none"
    /\ UNCHANGED <<results_csv, configVars, studentVars, saveVars>>

\* a run of the dashboard page past the gate (app.py:257-289), with the
\* clear button clicked or not
DashboardRun(pw, clear_clicked) ==
    /\ pw = ADMIN_PASS
    /\ event' = "dashboard"
    /\ password' = pw
    /\ IF LoadRaises(results_csv)
       THEN /\ df' = NotLoaded
            /\ raised' = "EmptyDataError"
            /\ messages' = {}
            /\ UNCHANGED results_csv
       ELSE /\ df' = load_results(results_csv)
            /\ LET shown == {MsgAuth} \cup
                            (IF df'.rows = <<>> THEN {MsgNoResults} ELSE {})
               IN  IF ~clear_clicked
                   THEN /\ messages' = shown
                        /\ raised' = "none"
                        /\ UNCHANGED results_csv
                   ELSE IF results_csv.exists
                   THEN /\ results_csv.ino < MaxClears
                        /\ results_csv' = RemoveFile(results_csv)
                        /\ messages' = shown \cup {MsgResultsGone}
                        /\ raised' = "none"
                   ELSE /\ raised' = "FileNotFoundError"
                        /\ messages' = shown
                        /\ UNCHANGED results_csv
    /\ UNCHANGED <<configVars, studentVars, saveVars>>

InitStore ==
    /\ ADMIN_PASS \in AdminPassSettings
    /\ client = TRUE
    /\ event = "init"
    /\ SessionBlank /\ SubmitBlank /\ RunBlank /\ DashBlank /\ StoreBlank

NextStore ==
    \/ \E s \in Sessions, sc \in 0..1 : SaveExists(s, sc)
    \/ \E s \in Sessions : SaveOpen(s)
    \/ \E s \in Sessions : SaveWrite(s)
    \/ \E pw \in Passwords : DashboardDenied(pw)
    \/ \E pw \in Passwords, clear_clicked \in BOOLEAN : DashboardRun(pw, clear_clicked)

SpecStore == InitStore /\ [][NextStore]_vars

----------------------------------------------------------------------------
(* The claims.                                                             *)

\* the options of record r, as a set
OptionSet(r) == {r.options[k] : k \in 1..Len(r.options)}

\* C1 (as claimed, under SpecParse): every record parse_quiz returns has a
\* non-empty prompt, at least 2 options, and a correct answer that resolves to
\* a string equal to one of the record's options.
C1_ReturnedRecordsValid ==
    event = "parse" =>
        \A i \in 1..Len(parsed) :
            /\ parsed[i].question # <<>>
            /\ Len(parsed[i].options) >= 2
            /\ CorrectOptionText(parsed[i]) \in OptionSet(parsed[i])

\* a well-formed block: a prompt line, four options labelled A to D in that
\* order, the line "Correct Answer: A" and a line that starts with "Context:"
IsWellFormed(b) ==
    /\ Len(b) = 7
    /\ \A k \in 1..4 : IsOptionLine(b[k + 1]) /\ b[k + 1][1] = UpperLetters[k]
    /\ b[6] = AnsLabelA
    /\ MatchAt(b[7], 1, KwContext) /\ b[7][Len(KwContext) + 1] = ":"

\* C2 (as claimed, under SpecParse): for a text of well-formed blocks,
\* parse_quiz returns one record per block in block order, each with the
\* block's four labelled lines as options in their order, and the correct
\* answer used for scoring is the option that starts with "A".
C2_WellFormedBlocksParse ==
    (/\ event = "parse"
     /\ source_blocks # <<>>
     /\ \A i \in 1..Len(source_blocks) : IsWellFormed(source_blocks[i]))
    => /\ Len(parsed) = Len(source_blocks)
       /\ \A i \in 1..Len(parsed) :
            /\ parsed[i].question = source_blocks[i][1]
            /\ parsed[i].options = SubSeq(source_blocks[i], 2, 5)
            /\ CorrectOptionText(parsed[i]) = source_blocks[i][2]

\* the text of a labelled option after its label
OptionBody(opt) == strip(SubSeq(opt, 3, Len(opt)))

\* C3 (as claimed, under SpecParse): when the correct-answer line gives the
\* full text of a labelled option instead of its label, the correct answer
\* resolves to that option, also when the text starts with A-D or 1-4.
C3_FullTextAnswerResolves ==
    event = "parse" =>
        \A i \in 1..Len(parsed) : \A opt \in OptionSet(parsed[i]) :
            (IsOptionLine(opt) /\ parsed[i].correct = OptionBody(opt))
            => CorrectOptionText(parsed[i]) = opt

\* C4 (as claimed, under SpecParse): a block from which only 3 options can be
\* extracted yields no record, so no returned record holds exactly 3 options.
C4_ThreeOptionBlockDropped ==
    event = "parse" => \A i \in 1..Len(parsed) : Len(parsed[i].options) # 3

\* C5 (under Spec): on submit, total is the number of records and score is the
\* number of positions whose answer was given and, trimmed, equals the
\* record's resolved correct answer, so 0 <= score <= total; for the phishing
\* quiz the score is 1 of 1 exactly when option B was submitted.
C5_ScoreCountsExactMatches ==
    event = "submit" =>
        /\ Len(user_answers) = Len(parsed)
        /\ total = Len(parsed)
        /\ score = Cardinality({i \in 1..Len(parsed) :
                        /\ user_answers[i] # NoAnswer
                        /\ strip(user_answers[i]) = CorrectOptionText(parsed[i])})
        /\ 0 <= score /\ score <= total
        /\ quiz_raw = BlockText(PhishingBlock) =>
              /\ total = 1
              /\ parsed[1].options = <<PhishA, PhishB, PhishC, PhishD>>
              /\ score = (IF user_answers[1] = PhishB THEN 1 ELSE 0)
              /\ pass_fail = (IF user_answers[1] = PhishB THEN "Pass" ELSE "Fail")

\* C5's case: the phishing quiz submitted with option B scores 1 of 1
C5_Witness ==
    /\ event = "submit"
    /\ quiz_raw = BlockText(PhishingBlock)
    /\ user_answers = <<PhishB>>
    /\ score = 1 /\ total = 1

\* C6 (under SpecVerdict): the verdict is Pass exactly when total > 0 and
\* 100*score/total >= 50, the boundary included; with total = 0 the percentage
\* is 0 and the verdict is Fail.
C6_PassIffHalf ==
    event = "verdict" =>
        /\ pass_fail \in {"Pass", "Fail"}
        /\ pass_fail = "Pass" <=> (total > 0 /\ 100 * score >= 50 * total)
        /\ total = 0 => (percentage[1] = 0 /\ percentage[2] # 0 /\ pass_fail = "Fail")
        /\ total > 0 => (percentage[1] * total = 100 * score * percentage[2]
                         /\ percentage[2] > 0)

\* C6's case: 5 of 10 is exactly 50 percent and passes
C6_Witness ==
    event = "verdict" /\ score = 5 /\ total = 10 /\ pass_fail = "Pass"

\* C7 (as claimed, under SpecStore): once every session's save_result_row has
\* returned and nothing was cleared, results.csv holds one header and exactly
\* one row per submission.
C7_OneRowPerSubmission ==
    ((\A s \in Sessions : pc[s] = "done") /\ results_csv.ino = 0)
    => /\ results_csv.exists
       /\ Len(results_csv.lines) = NumSessions + 1
       /\ results_csv.lines[1] = Header
       /\ \A s \in Sessions :
            Cardinality({k \in 2..Len(results_csv.lines) :
                            results_csv.lines[k] = local[s].row}) = 1

\* C8 (as claimed, under SpecStore): the clear button never ends a dashboard
\* run with an error, whether results.csv exists or not.
C8_ClearOfMissingStoreIsNoOp ==
    event = "dashboard" => raised # "FileNotFoundError"

\* C9 (as claimed, under SpecStore): a dashboard run reads or clears the store
\* only when the entered password equals ADMIN_PASS, and a run with a missing
\* or incorrect password stops before load_results with a response that does
\* not depend on the store.
C9_GateBeforeStore ==
    event = "dashboard" =>
        /\ (df.loaded \/ raised # "none" \/ MsgResultsGone \in messages)
           => password = ADMIN_PASS
        /\ (password = "" \/ password # ADMIN_PASS)
           => (~df.loaded /\ raised = "none" /\ messages \subseteq {MsgBadPass})

\* C10 (under Spec): a student-page run that parses no record shows the
\* "could not parse" warning exactly when the stored text is non-empty and the
\* "no quiz generated yet" notice exactly when it is empty, and leaves the text
\* in the session; a stored text that does not parse changes only in a run
\* that generates a new quiz or clears it.
C10_ParseFailureKeepsText ==
    /\ [](( /\ event \in {"generate", "clear_quiz", "rerun"}
            /\ raised = "none"
            /\ parsed = <<>> )
          => /\ quiz_text = quiz_raw
             /\ MsgNoParse \in messages <=> quiz_raw # <<>>
             /\ MsgNoQuiz \in messages <=> quiz_raw = <<>>)
    /\ [][( /\ quiz_text # <<>>
            /\ parse_quiz(quiz_text) = <<>>
            /\ quiz_text' # quiz_text )
          => \/ event' = "clear_quiz"
             \/ event' = "generate" /\ MsgGenerated \in messages']_vars

\* C10's case: a rerun over generated text that does not parse
C10_Witness ==
    /\ event = "rerun"
    /\ quiz_text = Chatter
    /\ parsed = <<>>
    /\ MsgNoParse \in messages

====
